---- MODULE Spec2Model ----
(***************************************************************************)
(* Model of the load path of src/etl_ship_data_with_schema.py: the         *)
(* dimension resolvers, prepare_bulk_data, load_data_to_postgres_bulk and  *)
(* the etl loop, running on one psycopg2 connection (autocommit off)       *)
(* against the star schema d_ship / d_calendar / f_data.                   *)
(***************************************************************************)
EXTENDS Integers, Sequences, FiniteSets, Bags, TLC

\* ---------------------------------------------------------------- bounds
MaxMinute == 2      \* distinct (year, month, day, hour, minute) tuples
MaxSecond == 1      \* distinct seconds-and-below parts inside one minute
MaxValue == 1       \* distinct sensor payloads
MaxRows == 3        \* rows of ProcessedRecords read, over all files and runs
MaxFaults == 1      \* storage errors the environment injects in total
MaxRuns == 2        \* pipeline runs against the same store
MaxOffset == 1      \* sample numbers reach this many quarter digits past a range end
MaxFileRows == 2    \* rows of one source file
MaxCalls == 2       \* direct calls of parse_data_column on one value

\* batch_size = 1000, scaled down so that one table spans several batches
batch_size == 2

\* ---------------------------------------------------------------- values
Ships == {"s1", "s2"}
FileNames == <<"a.xlsx", "b.xlsx">>
Minutes == 1..MaxMinute
Seconds == 0..MaxSecond
Values == 1..MaxValue
NaT == [min |-> 0, sec |-> 0]
\* the 'datetime' cell of a ProcessedRecord is a string: the text of a
\* timestamp, <<minute, second>>, or a text that parses to NaT, <<>>
DateStrings == {<<m, s>> : m \in Minutes, s \in Seconds} \cup {<<>>}
NoKey == "none"

\* os.getenv: None when the variable is not set, else its text (maybe empty)
None == "None"
EnvValues == {None, "", "value"}

\* pd.to_datetime(row['datetime'])
to_datetime(str) ==
    IF Len(str) = 0 THEN NaT ELSE [min |-> str[1], sec |-> str[2]]

ProcessedRecords(src) ==
    [id_ship : Ships, datetime : DateStrings, val : Values, data_source : {src}]

Tables(src, n) == [1..n -> ProcessedRecords(src)]

FileLists == {<<>>, <<FileNames[1]>>, <<FileNames[2]>>, FileNames}

Min(a, b) == IF a < b THEN a ELSE b

\* ---------------------------------------------------------------- store
\* d_ship and d_calendar are sets of rows (their primary keys are enforced by
\* the store); f_data is a bag of rows
EmptyStore == [d_ship |-> {}, d_calendar |-> {}, f_data |-> EmptyBag]

\* d_ship(ship_id PRIMARY KEY)
ShipPkViolation(store, ship_id) == ship_id \in store.d_ship

\* d_calendar(datetime_id PRIMARY KEY)
CalendarPkViolation(store, ts) ==
    \E r \in store.d_calendar : r.datetime_id = ts

\* f_data: ship_id and datetime_id are foreign keys into the dimensions
FkViolation(store, rec) ==
    \/ rec.ship_id \notin store.d_ship
    \/ ~ \E r \in store.d_calendar : r.datetime_id = rec.datetime_id

\* f_data: UNIQUE (ship_id, datetime_id)
SamePair(r, rec) ==
    r.ship_id = rec.ship_id /\ r.datetime_id = rec.datetime_id

\* faulty variant: the lookup never finds the row
ShipLookupMiss(store, ship_id) == NoKey

\* SELECT ship_id FROM d_ship WHERE ship_id = %s
ShipLookup(store, ship_id) ==
    IF ship_id \in store.d_ship THEN ship_id ELSE NoKey

\* faulty variant: the lookup compares the whole timestamp
CalendarMatchesExact(store, ts) ==
    {r \in store.d_calendar : r.datetime_id = ts}

\* SELECT datetime_id FROM d_calendar WHERE year = .. AND minute = ..
CalendarMatches(store, ts) ==
    {r \in store.d_calendar : r.minute = ts.min}

\* the row INSERTed into d_calendar for a timestamp
CalendarRow(ts) == [datetime_id |-> ts, minute |-> ts.min]

\* faulty variant: ON CONFLICT ... DO UPDATE, the last writer wins
RECURSIVE InsertOnConflictDoUpdate(_, _)
InsertOnConflictDoUpdate(rows, data) ==
    IF data = <<>> THEN rows
    ELSE LET rec == Head(data)
             others == {r \in BagToSet(rows) : ~SamePair(r, rec)}
         IN InsertOnConflictDoUpdate(SetToBag(others \cup {rec}), Tail(data))

\* faulty variant: a plain INSERT into a table that has lost its unique constraint
RECURSIVE InsertAll(_, _)
InsertAll(rows, data) ==
    IF data = <<>> THEN rows
    ELSE InsertAll(rows (+) SetToBag({Head(data)}), Tail(data))

\* INSERT INTO f_data ... VALUES %s ON CONFLICT (ship_id, datetime_id) DO NOTHING
RECURSIVE InsertOnConflictDoNothing(_, _)
InsertOnConflictDoNothing(rows, data) ==
    IF data = <<>> THEN rows
    ELSE LET rec == Head(data)
             kept == IF \E r \in BagToSet(rows) : SamePair(r, rec)
                     THEN rows ELSE rows (+) SetToBag({rec})
         IN InsertOnConflictDoNothing(kept, Tail(data))

\* faulty variant: the rows of the batch are counted, prepared or not
LoadedCountRows(df, data) == Len(df)

\* len(bulk_data), the amount added to records_loaded at line 569
LoadedCount(df, data) == Len(data)

\* ---------------------------------------------------------------- sensor values
\* a number is the exact value of a Python float, as an integer count of
\* quarter-millionths (0.00000025), so that values between two 6-decimal
\* numbers exist
Step(precision) == 4 * 10^(6 - precision)

\* the smallest float that lies exactly half-way between two numbers of this
\* precision: 2^-(precision+1), that is 0.125 for 2 decimals
Tie(precision) == (4 * 10^6) \div 2^(precision + 1)

\* a bound of the rule table, written there in hundredths
FromHundredths(h) == h * 40000

\* validation_rules: source key -> (target field, min, max, precision); min and
\* max are in hundredths
validation_rules ==
    [LAT |-> [target_field |-> "latitude", min_val |-> -9000, max_val |-> 9000, precision |-> 6],
     LON |-> [target_field |-> "longitude", min_val |-> -18000, max_val |-> 18000, precision |-> 6],
     WINDIR |-> [target_field |-> "wind_direction", min_val |-> 0, max_val |-> 36000, precision |-> 2],
     WINSPE |-> [target_field |-> "wind_speed", min_val |-> 0, max_val |-> 20000, precision |-> 2],
     AIR_TEMP_AUT |-> [target_field |-> "air_temperature", min_val |-> -5000, max_val |-> 6000, precision |-> 2],
     CTNK0_LIQ_VOL |-> [target_field |-> "tank0_liquid_volume", min_val |-> 0, max_val |-> 99999999, precision |-> 2],
     CTNK0_MAX_VOL |-> [target_field |-> "tank0_max_volume", min_val |-> 0, max_val |-> 99999999, precision |-> 2],
     CTNK0_MAX_PERC |-> [target_field |-> "tank0_percentage", min_val |-> 0, max_val |-> 10000, precision |-> 2],
     CTNK1_LIQ_VOL |-> [target_field |-> "tank1_liquid_volume", min_val |-> 0, max_val |-> 99999999, precision |-> 2],
     CTNK1_MAX_VOL |-> [target_field |-> "tank1_max_volume", min_val |-> 0, max_val |-> 99999999, precision |-> 2],
     CTNK1_PERC |-> [target_field |-> "tank1_percentage", min_val |-> 0, max_val |-> 10000, precision |-> 2],
     CTNK2_LIQ_VOL |-> [target_field |-> "tank2_liquid_volume", min_val |-> 0, max_val |-> 99999999, precision |-> 2],
     CTNK2_MAX_VOL |-> [target_field |-> "tank2_max_volume", min_val |-> 0, max_val |-> 99999999, precision |-> 2],
     CTNK2_PERC |-> [target_field |-> "tank2_percentage", min_val |-> 0, max_val |-> 10000, precision |-> 2],
     CTNK3_LIQ_VOL |-> [target_field |-> "tank3_liquid_volume", min_val |-> 0, max_val |-> 99999999, precision |-> 2],
     CTNK3_MAX_VOL |-> [target_field |-> "tank3_max_volume", min_val |-> 0, max_val |-> 99999999, precision |-> 2],
     CTNK3_PERC |-> [target_field |-> "tank3_percentage", min_val |-> 0, max_val |-> 10000, precision |-> 2],
     CTNK4_LIQ_VOL |-> [target_field |-> "tank4_liquid_volume", min_val |-> 0, max_val |-> 99999999, precision |-> 2],
     CTNK4_MAX_VOL |-> [target_field |-> "tank4_max_volume", min_val |-> 0, max_val |-> 99999999, precision |-> 2],
     CTNK4_PERC |-> [target_field |-> "tank4_percentage", min_val |-> 0, max_val |-> 10000, precision |-> 2],
     CTNK0_VAP_PRES |-> [target_field |-> "tank0_vapor_pressure", min_val |-> 0, max_val |-> 999999, precision |-> 2],
     CTNK0_VAP_TEMP |-> [target_field |-> "tank0_vapor_temperature", min_val |-> -20000, max_val |-> 20000, precision |-> 2],
     CTNK1_VAP_PRES |-> [target_field |-> "tank1_vapor_pressure", min_val |-> 0, max_val |-> 999999, precision |-> 2],
     CTNK1_VAP_TEMP |-> [target_field |-> "tank1_vapor_temperature", min_val |-> -20000, max_val |-> 20000, precision |-> 2],
     CTNK2_VAP_PRES |-> [target_field |-> "tank2_vapor_pressure", min_val |-> 0, max_val |-> 999999, precision |-> 2],
     CTNK2_VAP_TEMP |-> [target_field |-> "tank2_vapor_temperature", min_val |-> -20000, max_val |-> 20000, precision |-> 2],
     CTNK3_VAP_PRES |-> [target_field |-> "tank3_vapor_pressure", min_val |-> 0, max_val |-> 999999, precision |-> 2],
     CTNK3_VAP_TEMP |-> [target_field |-> "tank3_vapor_temperature", min_val |-> -20000, max_val |-> 20000, precision |-> 2],
     CTNK4_VAP_PRES |-> [target_field |-> "tank4_vapor_pressure", min_val |-> 0, max_val |-> 999999, precision |-> 2],
     CTNK4_VAP_TEMP |-> [target_field |-> "tank4_vapor_temperature", min_val |-> -20000, max_val |-> 20000, precision |-> 2]]

\* validation_rules.items(): the keys in the order of the table
rule_keys ==
    <<"LAT", "LON", "WINDIR", "WINSPE", "AIR_TEMP_AUT",
      "CTNK0_LIQ_VOL", "CTNK0_MAX_VOL", "CTNK0_MAX_PERC",
      "CTNK1_LIQ_VOL", "CTNK1_MAX_VOL", "CTNK1_PERC",
      "CTNK2_LIQ_VOL", "CTNK2_MAX_VOL", "CTNK2_PERC",
      "CTNK3_LIQ_VOL", "CTNK3_MAX_VOL", "CTNK3_PERC",
      "CTNK4_LIQ_VOL", "CTNK4_MAX_VOL", "CTNK4_PERC",
      "CTNK0_VAP_PRES", "CTNK0_VAP_TEMP", "CTNK1_VAP_PRES", "CTNK1_VAP_TEMP",
      "CTNK2_VAP_PRES", "CTNK2_VAP_TEMP", "CTNK3_VAP_PRES", "CTNK3_VAP_TEMP",
      "CTNK4_VAP_PRES", "CTNK4_VAP_TEMP">>

\* the keys an input mapping may carry: one 6-decimal field, one 2-decimal
\* field and one key that is not in the rule table
InputKeys == {"LAT", "WINDIR", "SOG"}

\* sample numbers for a key: around both ends of its range, in quarters of
\* its last kept digit, and two exact ties above its minimum (one next to an
\* even digit below it, one next to an odd digit)
Numbers(key) ==
    IF key \in DOMAIN validation_rules
    THEN LET rule == validation_rules[key]
             q == Step(rule.precision) \div 4
             t == Tie(rule.precision)
         IN {FromHundredths(rule.min_val) + d * q : d \in (-MaxOffset)..MaxOffset}
            \cup {FromHundredths(rule.max_val) + d * q : d \in (-MaxOffset)..MaxOffset}
            \cup {FromHundredths(rule.min_val) + t, FromHundredths(rule.min_val) + 3 * t}
    ELSE {0}

\* the Python values of a field; t is the kind, v the number where there is one:
\*   "None"    None                      "nan"     float('nan')
\*   "float"   a float                   "str"     the text of a number
\*   "strnan"  the text 'nan'            "text"    a text that is no number
\*   "list"    a list                    "bigint"  an int beyond the float range
RawValues(key) ==
    IF key \in DOMAIN validation_rules
    THEN [t : {"float", "str"}, v : Numbers(key)]
         \cup [t : {"None", "nan", "strnan", "text", "list", "bigint"}, v : {0}]
    ELSE [t : {"float"}, v : Numbers(key)]

EmptyDict == [k \in {} |-> 0]

Put(dict, key, value) ==
    [k \in DOMAIN dict \cup {key} |-> IF k = key THEN value ELSE dict[k]]

\* dictionaries over InputKeys
Dicts ==
    UNION {{[k \in keys |-> IF k = "LAT" THEN a ELSE IF k = "WINDIR" THEN b ELSE c] :
               a \in RawValues("LAT"), b \in RawValues("WINDIR"),
               c \in RawValues("SOG")} : keys \in SUBSET InputKeys}

\* ---------------------------------------------------------------- validate_sensor_data
\* float(value), line 174: the number, or the exception raised
ToFloat(value) ==
    CASE value.t \in {"float", "str"} -> [exc |-> "none", nan |-> FALSE, v |-> value.v]
      [] value.t = "strnan" -> [exc |-> "none", nan |-> TRUE, v |-> 0]
      [] value.t = "text" -> [exc |-> "ValueError", nan |-> FALSE, v |-> 0]
      [] value.t = "bigint" -> [exc |-> "OverflowError", nan |-> FALSE, v |-> 0]
      [] OTHER -> [exc |-> "TypeError", nan |-> FALSE, v |-> 0]

\* faulty variant: every number passes the range check
InRangeAlways(number, min_val, max_val) == TRUE

\* min_val <= numeric_value <= max_val, line 176; false for a NaN
InRange(number, min_val, max_val) ==
    /\ ~number.nan
    /\ FromHundredths(min_val) <= number.v
    /\ number.v <= FromHundredths(max_val)

\* Python's round(): to the nearest multiple of step, an exact tie to the
\* even multiple
RoundHalfEven(v, step) ==
    LET q == v \div step
        r == v % step
    IN IF 2 * r < step THEN q * step
       ELSE IF 2 * r > step THEN (q + 1) * step
       ELSE IF q % 2 = 0 THEN q * step ELSE (q + 1) * step

\* faulty variant: every field is rounded to 2 decimals
RoundCents(v, precision) == RoundHalfEven(v, Step(2))

\* round(numeric_value, precision), line 182
Round(v, precision) == RoundHalfEven(v, Step(precision))

\* a decoded value: kind "dict" (a dictionary), "seq" (a list, tuple, set or
\* string: 'in' works, indexing by a key raises TypeError) or "scalar" (a
\* number, None or a bool: 'in' raises TypeError); items maps the keys it
\* contains to their values
Parsed(kind, items) == [kind |-> kind, items |-> items]

\* the loop of lines 164-188 from the i-th rule on; acc is the state of the
\* call: validated_data, validation_errors and the exception that left it
RECURSIVE ValidateFrom(_, _, _)
ValidateFrom(i, data_dict, acc) ==
    IF i > Len(rule_keys) \/ acc.raised # "none" THEN acc
    ELSE LET source_key == rule_keys[i]
             rule == validation_rules[source_key]
             error == [acc EXCEPT !.validation_errors = @ + 1]
         IN IF data_dict.kind = "scalar"
            THEN [acc EXCEPT !.raised = "TypeError"]
            ELSE IF source_key \notin DOMAIN data_dict.items
            THEN ValidateFrom(i + 1, data_dict, acc)
            ELSE IF data_dict.kind = "seq"
            THEN ValidateFrom(i + 1, data_dict, error)
            ELSE LET value == data_dict.items[source_key]
                     numeric_value == ToFloat(value)
                 IN IF value.t \in {"None", "nan"}
                    THEN ValidateFrom(i + 1, data_dict, acc)
                    ELSE IF numeric_value.exc \in {"ValueError", "TypeError"}
                    THEN ValidateFrom(i + 1, data_dict, error)
                    ELSE IF numeric_value.exc # "none"
                    THEN [acc EXCEPT !.raised = numeric_value.exc]
                    ELSE IF ~InRange(numeric_value, rule.min_val, rule.max_val)
                    THEN ValidateFrom(i + 1, data_dict, error)
                    ELSE ValidateFrom(i + 1, data_dict,
                            [acc EXCEPT !.validated_data =
                                Put(@, source_key,
                                    Round(numeric_value.v, rule.precision))])

\* faulty variant: the row's index selects the first rule applied
validate_sensor_data_from_row(data_dict, row_identifier) ==
    ValidateFrom(1 + row_identifier, data_dict,
                 [validated_data |-> EmptyDict, validation_errors |-> 0,
                  raised |-> "none"])

\* validate_sensor_data, lines 125-193
validate_sensor_data(data_dict, row_identifier) ==
    ValidateFrom(1, data_dict,
                 [validated_data |-> EmptyDict, validation_errors |-> 0,
                  raised |-> "none"])

\* ---------------------------------------------------------------- parse_data_column
\* what is handed to parse_data_column: type "str" (a text), "dict" or
\* "other"; for a text, lit is what ast.literal_eval makes of it after the
\* quotes are cleaned (line 200): "dict", "seq", "scalar", or the exception
\* "SyntaxError" / "ValueError" of a malformed literal
DataValue(type, lit, items) == [type |-> type, lit |-> lit, items |-> items]

DataTexts ==
    {DataValue("str", lit, EmptyDict) : lit \in {"SyntaxError", "ValueError", "scalar", "seq"}}
        \cup {DataValue("str", "seq", [k \in {"LAT"} |-> [t |-> "text", v |-> 0]])}
        \cup {DataValue("str", "dict", d) : d \in Dicts}

DataInputs ==
    DataTexts
        \cup {DataValue("dict", "dict", d) : d \in Dicts}
        \cup {DataValue("other", "scalar", EmptyDict)}

\* faulty variant: only the ValueError clause is there
catches_value_error(exc) == exc = "ValueError"

\* the except clauses of lines 218-226: 'except Exception' takes every error
catches(exc) == TRUE

\* the mapping parse_data_column returns and what it called on the way:
\* sensor is the result of validate_sensor_data, if it was called; raised is
\* an exception that left parse_data_column
ParseResult(ret, sensor, raised) == [ret |-> ret, sensor |-> sensor, raised |-> raised]

NotCalled ==
    [validated_data |-> EmptyDict, validation_errors |-> 0, raised |-> "not called"]

\* parse_data_column, lines 195-226
parse_data_column(data_str, row_identifier) ==
    LET decode_error == data_str.type = "str" /\ data_str.lit \in {"SyntaxError", "ValueError"}
        sensor == validate_sensor_data(Parsed(data_str.lit, data_str.items),
                                       row_identifier)
        exc == IF decode_error THEN data_str.lit ELSE sensor.raised
    IN IF data_str.type = "other" THEN ParseResult(EmptyDict, NotCalled, "none")
       ELSE IF decode_error
       THEN ParseResult(EmptyDict, NotCalled,
                        IF catches(exc) THEN "none" ELSE exc)
       ELSE IF exc # "none"
       THEN ParseResult(EmptyDict, sensor, IF catches(exc) THEN "none" ELSE exc)
       ELSE ParseResult(sensor.validated_data, sensor, "none")

\* ---------------------------------------------------------------- state
VARIABLES
    pc,              \* position of the single thread of control
    run,             \* number of the pipeline run
    db,              \* committed content of the store
    tx,              \* content seen by the connection's open transaction
    tx_failed,       \* the open transaction is in the aborted state
    excel_list_path, \* etl: files discovered
    file_i,          \* etl: index of the current file
    total_records,   \* etl: grand total
    processed_df,    \* table handed to load_data_to_postgres
    records_loaded,  \* loader: running count
    batch_start,     \* loader: first row (0-based) of the current batch
    row_k,           \* prepare_bulk_data: row of the batch (1-based)
    ship_id,         \* prepare_bulk_data: key returned by get_or_create_ship_id
    bulk_data,       \* prepare_bulk_data: records prepared so far
    result,          \* value returned / error raised by the loader
    faults,          \* storage errors injected so far
    rows_read,       \* rows of ProcessedRecords read so far
    \* history variables, read by the properties only
    resolved,        \* <<timestamp, key>> of every get_or_create_datetime_id return
    durable,         \* f_data rows present when a batch commit was logged (line 581)
    rows_added,      \* f_data rows the current load added
    committed_count, \* records of the current load's committed batches
    load_clean,      \* no storage error has touched the current load
    prev_load,       \* the table of the last load, if it was clean, and the store it left
    invoked,         \* files handed to process_xlsx_file in this run, in order
    submitted,       \* records of the insert statements executed in this run
    queries,         \* lookups issued while the current batch is prepared
    batches,         \* batches the current load has started, with their outcome
    \* __main__ and connect_to_db
    db_conn_string,  \* os.getenv('DATABASE_URL')
    data_folder_path, \* os.getenv('DATA_FOLDER_PATH')
    conn,            \* the database connection: "none" or "open"
    schema,          \* the tables d_ship, d_calendar, f_data: "absent" or "present"
    schema_checked,  \* validate_database_schema has been called by this process
    \* process_xlsx_file
    df_columns,      \* columns of the sheet read from the file
    total_rows,      \* len(df)
    idx,             \* rows iterated so far
    df_row,          \* the row of the last iteration
    processed_rows,  \* rows materialised so far
    validation_errors, \* rows skipped by a validation check
    processing_errors, \* rows skipped by the per-row exception handler
    success_rate,    \* the percentage logged at the end, rounded down
    origin,          \* history: the value of idx each materialised row came from
    \* parse_data_column
    data_str,        \* the value last handed to parse_data_column
    row_identifier,  \* and the row identifier that went with it
    parsed,          \* what that call returned, and validate_sensor_data in it
    first,           \* return of the first direct call, with its row identifier
    calls            \* direct calls made

vars == <<pc, run, db, tx, tx_failed, excel_list_path, file_i, total_records,
          processed_df, records_loaded, batch_start, row_k, ship_id,
          bulk_data, result, faults, rows_read, resolved, durable,
          rows_added, committed_count, load_clean, prev_load, invoked,
          submitted, db_conn_string, data_folder_path, conn, schema,
          schema_checked, df_columns, total_rows, idx, df_row, processed_rows,
          validation_errors, processing_errors, success_rate, origin,
          data_str, row_identifier, parsed, first, calls, queries, batches>>

file_vars == <<df_columns, total_rows, idx, df_row, processed_rows,
               validation_errors, processing_errors, success_rate, origin>>

parse_vars == <<data_str, row_identifier, parsed, first, calls>>

startup == <<db_conn_string, data_folder_path, conn, schema, schema_checked>>

hist == <<resolved, durable, rows_added, committed_count, load_clean, prev_load>>

NoLoad == [df |-> <<>>, db |-> EmptyStore]

NoResult == [kind |-> "none", count |-> 0]

\* a cell of the sheet: na is pd.isna(cell), v its value
Cell(na, v) == [na |-> na, v |-> v]

NoRow ==
    [id_ship |-> Cell(TRUE, ""), datetime |-> Cell(TRUE, <<>>),
     data |-> Cell(TRUE, DataValue("str", "scalar", EmptyDict))]

NotParsed == ParseResult(EmptyDict, NotCalled, "not called")

\* no file is being processed
NoFile ==
    /\ df_columns = {}
    /\ total_rows = 0
    /\ idx = 0
    /\ df_row = NoRow
    /\ processed_rows = <<>>
    /\ validation_errors = 0
    /\ processing_errors = 0
    /\ success_rate = 0
    /\ origin = <<>>

\* parse_data_column has not been called
NoCall ==
    /\ data_str = DataValue("other", "scalar", EmptyDict)
    /\ row_identifier = 0
    /\ parsed = NotParsed
    /\ first = [row_identifier |-> 0, ret |-> EmptyDict]
    /\ calls = 0

Init ==
    /\ pc = "main"
    /\ run = 1
    /\ db = EmptyStore
    /\ tx = EmptyStore
    /\ tx_failed = FALSE
    /\ excel_list_path = <<>>
    /\ file_i = 1
    /\ total_records = 0
    /\ processed_df = <<>>
    /\ records_loaded = 0
    /\ batch_start = 0
    /\ row_k = 1
    /\ ship_id = NoKey
    /\ bulk_data = <<>>
    /\ result = NoResult
    /\ faults = 0
    /\ rows_read = 0
    /\ resolved = {}
    /\ durable = {}
    /\ rows_added = 0
    /\ committed_count = 0
    /\ load_clean = TRUE
    /\ prev_load = NoLoad
    /\ invoked = <<>>
    /\ submitted = 0
    /\ queries = <<>>
    /\ batches = <<>>
    /\ db_conn_string = None
    /\ data_folder_path = None
    /\ conn = "none"
    /\ schema \in {"absent", "present"}
    /\ schema_checked = FALSE
    /\ NoFile
    /\ NoCall

\* outcomes the environment may give a storage call
Outcomes(errs) == IF faults < MaxFaults THEN {"ok"} \cup errs ELSE {"ok"}

batch_end == Min(batch_start + batch_size, Len(processed_df))
batch_df == SubSeq(processed_df, batch_start + 1, batch_end)

\* faulty variant: the next batch starts on the last row of this one
NextBatchOverlap(start) == start + batch_size - 1

\* range(0, len(processed_df), batch_size), line 534: the start after this one
NextBatch(start) == start + batch_size

\* the outcome of the batch started last
Close(log, outcome) == [log EXCEPT ![Len(log)].outcome = outcome]

\* conn.rollback(): the transaction's view falls back to the committed store
Rollback == db

\* faulty variant: the commit is logged but not issued
CommitMissing(committed, view) == committed

\* conn.commit(): the transaction's view becomes the committed store
Commit(committed, view) == view

\* ---------------------------------------------------------------- __main__
\* faulty variant: only DATABASE_URL is checked
MissingConfigUrlOnly(url, path) == url \in {None, ""}

\* the checks 'if not db_conn_string' / 'if not data_folder_path', lines 636-639
MissingConfig(url, path) == url \in {None, ""} \/ path \in {None, ""}

\* __main__, lines 632-639: read the configuration or fail
Main ==
    /\ pc = "main"
    /\ \E url \in EnvValues, path \in EnvValues :
        /\ db_conn_string' = url
        /\ data_folder_path' = path
        /\ IF MissingConfig(url, path)
           THEN /\ pc' = "fatal"
                /\ result' = [kind |-> "ValueError", count |-> 0]
           ELSE /\ pc' = "connect"
                /\ UNCHANGED result
    /\ UNCHANGED <<file_vars, parse_vars, conn, schema, schema_checked>>
    /\ UNCHANGED <<run, db, tx, tx_failed, excel_list_path, file_i,
                   total_records, processed_df, records_loaded, batch_start,
                   row_k, ship_id, bulk_data, faults, rows_read, hist,
                   invoked, submitted>>
    /\ UNCHANGED <<queries, batches>>

\* connect_to_db, lines 106-123, with validate_database_schema (65-86) and
\* create_database_schema (36-63), as called at line 644; a raise goes through
\* the handler at lines 654-656
ConnectToDb ==
    /\ pc = "connect"
    /\ \E connected \in BOOLEAN :
        IF ~connected
        THEN /\ pc' = "fatal"
             /\ result' = [kind |-> "OperationalError", count |-> 0]
             /\ UNCHANGED <<conn, schema, schema_checked>>
        ELSE /\ conn' = "open"
             /\ schema_checked' = TRUE
             /\ \E valid \in (IF schema = "present" THEN BOOLEAN ELSE {FALSE}) :
                \E created \in BOOLEAN :
                   IF valid \/ created
                   THEN /\ schema' = "present"
                        /\ pc' = "start"
                        /\ UNCHANGED result
                   ELSE /\ pc' = "fatal"
                        /\ result' = [kind |-> "RuntimeError", count |-> 0]
                        /\ UNCHANGED schema
    /\ UNCHANGED <<file_vars, parse_vars, db_conn_string, data_folder_path>>
    /\ UNCHANGED <<run, db, tx, tx_failed, excel_list_path, file_i,
                   total_records, processed_df, records_loaded, batch_start,
                   row_k, ship_id, bulk_data, faults, rows_read, hist,
                   invoked, submitted>>
    /\ UNCHANGED <<queries, batches>>

\* ---------------------------------------------------------------- etl
\* etl, lines 597-603 and its handler 626-628: discover the files
GetExcelFiles ==
    /\ pc = "start"
    /\ \E ok \in BOOLEAN :
        IF ok
        THEN /\ \E fl \in FileLists : excel_list_path' = fl
             /\ pc' = "file"
             /\ result' = NoResult
        ELSE /\ excel_list_path' = <<>>
             /\ pc' = "raised"
             /\ result' = [kind |-> "discovery", count |-> 0]
    /\ file_i' = 1
    /\ total_records' = 0
    /\ invoked' = <<>>
    /\ submitted' = 0
    /\ UNCHANGED <<file_vars, parse_vars, startup>>
    /\ UNCHANGED <<run, db, tx, tx_failed, processed_df, records_loaded,
                   batch_start, row_k, ship_id, bulk_data, faults, rows_read,
                   hist>>
    /\ UNCHANGED <<queries, batches>>

\* etl, lines 605-618: process_xlsx_file of the current file, then the
\* entry of load_data_to_postgres_bulk (lines 525-530) when rows came out
ProcessXlsxFile ==
    /\ pc = "file"
    /\ file_i <= Len(excel_list_path)
    /\ \E raises \in BOOLEAN :
        IF raises
        THEN /\ processed_df' = <<>>
             /\ result' = [kind |-> "file", count |-> 0]
             /\ pc' = "file_error"
             /\ UNCHANGED <<file_i, rows_read>>
        ELSE \E n \in 0..(MaxRows - rows_read) :
             \E df \in Tables(excel_list_path[file_i], n) :
             /\ processed_df' = df
             /\ rows_read' = rows_read + Len(df)
             /\ UNCHANGED result
             /\ IF df = <<>>
                THEN pc' = "file" /\ file_i' = file_i + 1
                ELSE pc' = "batch" /\ UNCHANGED file_i
    /\ records_loaded' = 0
    /\ batch_start' = 0
    /\ rows_added' = 0
    /\ committed_count' = 0
    /\ load_clean' = ~tx_failed
    /\ invoked' = Append(invoked, excel_list_path[file_i])
    /\ UNCHANGED <<file_vars, parse_vars, startup, submitted>>
    /\ UNCHANGED <<run, db, tx, tx_failed, excel_list_path, total_records,
                   row_k, ship_id, bulk_data, faults, resolved, durable,
                   prev_load>>
    /\ UNCHANGED <<queries, batches>>

\* load_data_to_postgres_bulk, lines 534-538 and 583-584: head of the batch
\* loop, or the normal return when the table is exhausted
BatchStart ==
    /\ pc = "batch"
    /\ IF batch_start < Len(processed_df)
       THEN /\ pc' = "row"
            /\ batches' = Append(batches, [start |-> batch_start,
                                            end |-> batch_end,
                                            outcome |-> "open"])
            /\ UNCHANGED result
       ELSE /\ pc' = "ret"
            /\ result' = [kind |-> "returned", count |-> records_loaded]
            /\ UNCHANGED batches
    /\ row_k' = 1
    /\ bulk_data' = <<>>
    /\ UNCHANGED <<file_vars, parse_vars, startup, invoked, submitted>>
    /\ UNCHANGED <<run, db, tx, tx_failed, excel_list_path, file_i,
                   total_records, processed_df, records_loaded, batch_start,
                   ship_id, faults, rows_read, hist>>
    /\ UNCHANGED queries

\* prepare_bulk_data, lines 483-489 and 521, and lines 543-545 of the loader
PrepareRow ==
    /\ pc = "row"
    /\ IF row_k > Len(batch_df)
       THEN /\ IF bulk_data = <<>>
               THEN /\ pc' = "batch"
                    /\ batch_start' = NextBatch(batch_start)
                    /\ batches' = Close(batches, "skipped")
               ELSE /\ pc' = "insert"
                    /\ UNCHANGED <<batch_start, batches>>
            /\ queries' = <<>>
            /\ UNCHANGED row_k
       ELSE /\ IF to_datetime(batch_df[row_k].datetime) = NaT
               THEN pc' = "row" /\ row_k' = row_k + 1
               ELSE pc' = "ship" /\ UNCHANGED row_k
            /\ UNCHANGED <<batch_start, queries, batches>>
    /\ UNCHANGED <<file_vars, parse_vars, startup, invoked, submitted>>
    /\ UNCHANGED <<run, db, tx, tx_failed, excel_list_path, file_i,
                   total_records, processed_df, records_loaded, ship_id,
                   bulk_data, result, faults, rows_read, hist>>

\* get_or_create_ship_id, lines 423-440, inside get_db_cursor (88-104), as
\* called at line 492; a raise is caught at lines 517-519
GetOrCreateShipId ==
    /\ pc = "ship"
    /\ LET id == batch_df[row_k].id_ship
           found == ShipLookup(tx, id)
       IN \E out \in Outcomes({"select_error", "insert_error", "commit_error"}) :
          /\ tx_failed => out = "ok"
          /\ (~tx_failed /\ found # NoKey) => out \in {"ok", "select_error"}
          /\ faults' = IF out = "ok" THEN faults ELSE faults + 1
          /\ load_clean' = (load_clean /\ out = "ok")
          /\ IF tx_failed \/ out # "ok" \/ (found = NoKey /\ ShipPkViolation(tx, id))
             THEN /\ tx' = Rollback
                  /\ tx_failed' = FALSE
                  /\ pc' = "row"
                  /\ row_k' = row_k + 1
                  /\ UNCHANGED <<db, ship_id>>
             ELSE IF found # NoKey
             THEN /\ ship_id' = found
                  /\ pc' = "cal"
                  /\ UNCHANGED <<db, tx, tx_failed, row_k>>
             ELSE /\ tx' = [tx EXCEPT !.d_ship = @ \cup {id}]
                  /\ db' = Commit(db, tx')
                  /\ ship_id' = id
                  /\ pc' = "cal"
                  /\ UNCHANGED <<tx_failed, row_k>>
    /\ UNCHANGED <<file_vars, parse_vars, startup, invoked, submitted>>
    /\ UNCHANGED <<run, excel_list_path, file_i, total_records, processed_df,
                   records_loaded, batch_start, bulk_data, result, rows_read,
                   resolved, durable, rows_added, committed_count, prev_load>>
    /\ queries' = Append(queries, <<"d_ship", batch_df[row_k].id_ship>>)
    /\ UNCHANGED batches

\* the tuple built at lines 498-513
BulkRecord(row, ship, datetime_id) ==
    [ship_id |-> ship, datetime_id |-> datetime_id, val |-> row.val,
     data_source |-> row.data_source, original_datetime |-> row.datetime]

\* get_or_create_datetime_id, lines 442-473, as called at line 495, and the
\* append of the bulk record, lines 498-515
GetOrCreateDatetimeId ==
    /\ pc = "cal"
    /\ LET row == batch_df[row_k]
           timestamp == to_datetime(row.datetime)
           found == CalendarMatches(tx, timestamp)
       IN \E out \in Outcomes({"select_error", "insert_error", "commit_error"}) :
          /\ found # {} => out \in {"ok", "select_error"}
          /\ faults' = IF out = "ok" THEN faults ELSE faults + 1
          /\ load_clean' = (load_clean /\ out = "ok")
          /\ IF out # "ok" \/ (found = {} /\ CalendarPkViolation(tx, timestamp))
             THEN /\ tx' = Rollback
                  /\ UNCHANGED <<db, bulk_data, resolved>>
             ELSE IF found # {}
             THEN /\ \E r \in found :
                       /\ bulk_data' = Append(bulk_data,
                                              BulkRecord(row, ship_id, r.datetime_id))
                       /\ resolved' = resolved \cup {<<timestamp, r.datetime_id>>}
                  /\ UNCHANGED <<db, tx>>
             ELSE /\ tx' = [tx EXCEPT !.d_calendar = @ \cup {CalendarRow(timestamp)}]
                  /\ db' = Commit(db, tx')
                  /\ bulk_data' = Append(bulk_data,
                                         BulkRecord(row, ship_id, timestamp))
                  /\ resolved' = resolved \cup {<<timestamp, timestamp>>}
    /\ pc' = "row"
    /\ row_k' = row_k + 1
    /\ ship_id' = NoKey
    /\ UNCHANGED <<file_vars, parse_vars, startup, invoked, submitted>>
    /\ UNCHANGED <<run, tx_failed, excel_list_path, file_i, total_records,
                   processed_df, records_loaded, batch_start, result,
                   rows_read, durable, rows_added, committed_count, prev_load>>
    /\ queries' = Append(queries, <<"d_calendar",
                                   to_datetime(batch_df[row_k].datetime).min>>)
    /\ UNCHANGED batches

\* load_data_to_postgres_bulk, lines 548-577: the bulk insert of one batch
ExecuteValues ==
    /\ pc = "insert"
    /\ \E out \in Outcomes({"server_error", "client_error", "cursor_error"}) :
       /\ tx_failed => out = "ok"
       /\ faults' = IF out = "ok" THEN faults ELSE faults + 1
       /\ load_clean' = (load_clean /\ out = "ok")
       /\ IF out = "cursor_error"
          THEN /\ tx' = Rollback
               /\ tx_failed' = FALSE
               /\ pc' = "except"
               /\ batches' = Close(batches, "raised")
               /\ UNCHANGED <<records_loaded, batch_start, rows_added,
                              submitted>>
          ELSE IF tx_failed \/ out = "client_error"
          THEN /\ pc' = "batch"
               /\ batch_start' = NextBatch(batch_start)
               /\ batches' = Close(batches, "skipped")
               /\ UNCHANGED <<tx, tx_failed, records_loaded, rows_added,
                              submitted>>
          ELSE IF out = "server_error"
                  \/ \E i \in 1..Len(bulk_data) : FkViolation(tx, bulk_data[i])
          THEN /\ tx_failed' = TRUE
               /\ pc' = "batch"
               /\ batch_start' = NextBatch(batch_start)
               /\ batches' = Close(batches, "skipped")
               /\ UNCHANGED <<tx, records_loaded, rows_added, submitted>>
          ELSE /\ tx' = [tx EXCEPT !.f_data = InsertOnConflictDoNothing(@, bulk_data)]
               /\ records_loaded' = records_loaded + LoadedCount(batch_df, bulk_data)
               /\ submitted' = submitted + Len(bulk_data)
               /\ rows_added' = rows_added + BagCardinality(tx'.f_data)
                                           - BagCardinality(tx.f_data)
               /\ pc' = "commit"
               /\ UNCHANGED <<tx_failed, batch_start, batches>>
    /\ UNCHANGED <<file_vars, parse_vars, startup, invoked>>
    /\ UNCHANGED <<run, db, excel_list_path, file_i, total_records,
                   processed_df, row_k, ship_id, bulk_data, result, rows_read,
                   resolved, durable, committed_count, prev_load>>
    /\ UNCHANGED queries

\* load_data_to_postgres_bulk, lines 579-581: conn.commit() of the batch
BatchCommit ==
    /\ pc = "commit"
    /\ \E out \in Outcomes({"commit_error"}) :
       /\ faults' = IF out = "ok" THEN faults ELSE faults + 1
       /\ load_clean' = (load_clean /\ out = "ok")
       /\ IF out = "ok"
          THEN /\ db' = Commit(db, tx)
               /\ durable' = BagToSet(tx.f_data)
               /\ committed_count' = committed_count + Len(bulk_data)
               /\ pc' = "batch"
               /\ batch_start' = NextBatch(batch_start)
               /\ batches' = Close(batches, "committed")
          ELSE /\ pc' = "except"
               /\ batches' = Close(batches, "raised")
               /\ UNCHANGED <<db, batch_start, durable, committed_count>>
    /\ UNCHANGED <<file_vars, parse_vars, startup, invoked, submitted>>
    /\ UNCHANGED <<run, tx, tx_failed, excel_list_path, file_i, total_records,
                   processed_df, records_loaded, row_k, ship_id, bulk_data,
                   result, rows_read, resolved, rows_added, prev_load>>
    /\ UNCHANGED queries

\* load_data_to_postgres_bulk, lines 586-593: the handler of an error that
\* escaped the batch loop
LoaderExcept ==
    /\ pc = "except"
    /\ tx' = Rollback
    /\ tx_failed' = FALSE
    /\ result' = [kind |-> "RuntimeError", count |-> records_loaded]
    /\ pc' = "file_error"
    /\ bulk_data' = <<>>
    /\ prev_load' = NoLoad
    /\ UNCHANGED <<file_vars, parse_vars, startup, invoked, submitted>>
    /\ UNCHANGED <<run, db, excel_list_path, file_i, total_records,
                   processed_df, records_loaded, batch_start, row_k, ship_id,
                   faults, rows_read, resolved, durable, rows_added,
                   committed_count, load_clean>>
    /\ UNCHANGED <<queries, batches>>

\* faulty variant: the per-file handler re-raises
EtlFileErrorReraise ==
    /\ pc = "file_error"
    /\ pc' = "raised"
    /\ UNCHANGED <<file_vars, parse_vars, startup, invoked, submitted>>
    /\ UNCHANGED <<run, db, tx, tx_failed, excel_list_path, file_i,
                   total_records, processed_df, records_loaded, batch_start,
                   row_k, ship_id, bulk_data, result, faults, rows_read, hist>>
    /\ UNCHANGED <<queries, batches>>

\* etl, lines 620-622: the per-file handler
EtlFileError ==
    /\ pc = "file_error"
    /\ pc' = "file"
    /\ file_i' = file_i + 1
    /\ UNCHANGED <<file_vars, parse_vars, startup, invoked, submitted>>
    /\ UNCHANGED <<run, db, tx, tx_failed, excel_list_path, total_records,
                   processed_df, records_loaded, batch_start, row_k, ship_id,
                   bulk_data, result, faults, rows_read, hist>>
    /\ batches' = <<>>
    /\ UNCHANGED queries

\* etl, lines 614-616: the loader returned
EtlAccumulate ==
    /\ pc = "ret"
    /\ total_records' = total_records + result.count
    /\ pc' = "file"
    /\ file_i' = file_i + 1
    /\ prev_load' = IF load_clean THEN [df |-> processed_df, db |-> db]
                    ELSE NoLoad
    /\ UNCHANGED <<file_vars, parse_vars, startup, invoked, submitted>>
    /\ UNCHANGED <<run, db, tx, tx_failed, excel_list_path, processed_df,
                   records_loaded, batch_start, row_k, ship_id, bulk_data,
                   result, faults, rows_read, resolved, durable, rows_added,
                   committed_count, load_clean>>
    /\ batches' = <<>>
    /\ UNCHANGED queries

\* etl, line 624: all files done
EtlFinish ==
    /\ pc = "file"
    /\ file_i > Len(excel_list_path)
    /\ pc' = "done"
    /\ UNCHANGED <<file_vars, parse_vars, startup, invoked, submitted>>
    /\ UNCHANGED <<run, db, tx, tx_failed, excel_list_path, file_i,
                   total_records, processed_df, records_loaded, batch_start,
                   row_k, ship_id, bulk_data, result, faults, rows_read, hist>>
    /\ UNCHANGED <<queries, batches>>

\* __main__, lines 630-656: the process ends (the connection goes away and
\* with it any uncommitted work) and the pipeline is started again
Restart ==
    /\ pc \in {"done", "raised", "fatal"}
    /\ run < MaxRuns
    /\ run' = run + 1
    /\ pc' = "main"
    /\ db_conn_string' = None
    /\ data_folder_path' = None
    /\ conn' = "none"
    /\ schema_checked' = FALSE
    /\ invoked' = <<>>
    /\ submitted' = 0
    /\ tx' = Rollback
    /\ tx_failed' = FALSE
    /\ excel_list_path' = <<>>
    /\ file_i' = 1
    /\ total_records' = 0
    /\ processed_df' = <<>>
    /\ records_loaded' = 0
    /\ batch_start' = 0
    /\ result' = NoResult
    /\ UNCHANGED <<file_vars, parse_vars, schema>>
    /\ UNCHANGED <<db, row_k, ship_id, bulk_data, faults, rows_read, hist>>
    /\ UNCHANGED <<queries, batches>>

Next ==
    \/ Main
    \/ ConnectToDb
    \/ GetExcelFiles
    \/ ProcessXlsxFile
    \/ BatchStart
    \/ PrepareRow
    \/ GetOrCreateShipId
    \/ GetOrCreateDatetimeId
    \/ ExecuteValues
    \/ BatchCommit
    \/ LoaderExcept
    \/ EtlFileError
    \/ EtlAccumulate
    \/ EtlFinish
    \/ Restart

Spec == Init /\ [][Next]_vars

\* one run of the process, from its start to its exit
NextRun ==
    \/ Main
    \/ ConnectToDb
    \/ GetExcelFiles
    \/ ProcessXlsxFile
    \/ BatchStart
    \/ PrepareRow
    \/ GetOrCreateShipId
    \/ GetOrCreateDatetimeId
    \/ ExecuteValues
    \/ BatchCommit
    \/ LoaderExcept
    \/ EtlFileError
    \/ EtlAccumulate
    \/ EtlFinish

\* the interpreter runs the single thread until the process exits: a step is
\* taken whenever one is possible
RunSpec == Init /\ [][NextRun]_vars /\ WF_vars(NextRun)

\* ---------------------------------------------------------------- process_xlsx_file
Columns == {"id_ship", "datetime", "data", "datetime_created"}

\* the sheets a file may hold: complete, without a required column, without
\* the optional column the row mapping reads at line 362
ColumnSets == {Columns, Columns \ {"data"}, Columns \ {"datetime_created"}}

required_columns == {"id_ship", "datetime", "data"}

\* the embedded-data texts of a sheet: those that mention no other key of the
\* rule table than these
SheetKeys == {"LAT", "SOG"}
SheetTexts == {d \in DataTexts : DOMAIN d.items \subseteq SheetKeys}

\* the rows a sheet with these columns may hold
SheetRows(columns) ==
    [id_ship : {Cell(TRUE, ""), Cell(FALSE, " "), Cell(FALSE, "s1")},
     datetime : {Cell(TRUE, <<>>), Cell(FALSE, <<1, 0>>)},
     data : IF "data" \in columns
            THEN {NoRow.data} \cup {Cell(FALSE, d) : d \in SheetTexts}
            ELSE {NoRow.data}]

\* str(cell).strip() if pd.notna(cell) else None, lines 341-343
Sanitize(cell) ==
    IF cell.na THEN None ELSE IF cell.v = " " THEN "" ELSE cell.v

\* validate_input_data, lines 306-312
validate_input_data(columns, required) == required \subseteq columns

\* faulty variant: the table always counts as non-empty
empty_never(df_data) == FALSE

\* df_data.empty, line 612
empty(df_data) == df_data = <<>>

RowIdentifiers == 0..(MaxFileRows - 1)

\* process_xlsx_file, lines 316-331, as called at line 610: the file is
\* opened and its sheet read
ReadExcel ==
    /\ pc = "file"
    /\ file_i <= Len(excel_list_path)
    /\ invoked' = Append(invoked, excel_list_path[file_i])
    /\ \E out \in {"ok", "stat_error", "read_error"} :
         CASE out = "stat_error" ->
                /\ pc' = "file_error"
                /\ result' = [kind |-> "file", count |-> 0]
                /\ UNCHANGED <<processed_df, file_vars>>
           [] out = "read_error" ->
                /\ pc' = "branch"
                /\ processed_df' = <<>>
                /\ UNCHANGED <<result, file_vars>>
           [] out = "ok" ->
                /\ \E n \in 0..MaxFileRows : total_rows' = n
                /\ \E columns \in ColumnSets : df_columns' = columns
                /\ idx' = 0
                /\ processed_rows' = <<>>
                /\ validation_errors' = 0
                /\ processing_errors' = 0
                /\ origin' = <<>>
                /\ pc' = "iter"
                /\ UNCHANGED <<result, processed_df, df_row, success_rate>>
    /\ UNCHANGED <<parse_vars, startup, submitted>>
    /\ UNCHANGED <<run, db, tx, tx_failed, excel_list_path, file_i,
                   total_records, records_loaded, batch_start, row_k, ship_id,
                   bulk_data, faults, rows_read, hist>>
    /\ UNCHANGED <<queries, batches>>

\* row['datetime_created'] at line 362 raises KeyError when the sheet has no
\* such column; parse_data_column may hand an exception on
Raises(columns, data_dict) ==
    data_dict.raised # "none" \/ "datetime_created" \notin columns

\* faulty variant: the per-row handler counts the row as a validation error
RowOutcomeAsValidation(checked, columns, data_dict) ==
    IF ~checked \/ (data_dict.raised = "none" /\ DOMAIN data_dict.ret = {})
    THEN "validation"
    ELSE IF Raises(columns, data_dict) THEN "validation" ELSE "appended"

\* faulty variant: a row whose data give no field is skipped without a count
RowOutcomeUncounted(checked, columns, data_dict) ==
    IF ~checked
    THEN "validation"
    ELSE IF data_dict.raised = "none" /\ DOMAIN data_dict.ret = {}
    THEN "skipped"
    ELSE IF Raises(columns, data_dict) THEN "processing" ELSE "appended"

\* how one iteration of the loop at lines 333-400 ends: one of the three
\* 'continue' statements after validation_errors += 1 (lines 336-356), the
\* handler at lines 397-400, or processed_rows.append at line 395
RowOutcome(checked, columns, data_dict) ==
    IF ~checked \/ (data_dict.raised = "none" /\ DOMAIN data_dict.ret = {})
    THEN "validation"
    ELSE IF Raises(columns, data_dict) THEN "processing" ELSE "appended"

\* process_xlsx_file, lines 333-400: one iteration of the row loop
ProcessRow ==
    /\ pc = "iter"
    /\ idx < total_rows
    /\ \E r \in SheetRows(df_columns) :
         LET ship == Sanitize(r.id_ship)
             datetime_str == IF r.datetime.na THEN <<>> ELSE r.datetime.v
             data_dict == parse_data_column(r.data.v, idx)
             checked == /\ validate_input_data(df_columns, required_columns)
                        /\ ship \notin {None, ""}
                        /\ ~r.datetime.na
                        /\ ~r.data.na
             processed_row == [id_ship |-> ship, datetime |-> datetime_str,
                               val |-> data_dict.ret,
                               data_source |-> excel_list_path[file_i]]
             outcome == RowOutcome(checked, df_columns, data_dict)
         IN /\ df_row' = r
            /\ IF checked
               THEN /\ data_str' = r.data.v
                    /\ row_identifier' = idx
                    /\ parsed' = data_dict
               ELSE UNCHANGED <<data_str, row_identifier, parsed>>
            /\ validation_errors' =
                 IF outcome = "validation"
                 THEN validation_errors + 1 ELSE validation_errors
            /\ processing_errors' =
                 IF outcome = "processing"
                 THEN processing_errors + 1 ELSE processing_errors
            /\ processed_rows' =
                 IF outcome = "appended"
                 THEN Append(processed_rows, processed_row) ELSE processed_rows
            /\ origin' =
                 IF outcome = "appended" THEN Append(origin, idx) ELSE origin
    /\ idx' = idx + 1
    /\ UNCHANGED <<df_columns, total_rows, success_rate, first, calls>>
    /\ UNCHANGED <<startup, invoked, submitted>>
    /\ UNCHANGED <<pc, run, db, tx, tx_failed, excel_list_path, file_i,
                   total_records, processed_df, records_loaded, batch_start,
                   row_k, ship_id, bulk_data, result, faults, rows_read, hist>>
    /\ UNCHANGED <<queries, batches>>

\* process_xlsx_file, lines 402-417: the statistics and the return
FileStats ==
    /\ pc = "iter"
    /\ idx = total_rows
    /\ success_rate' = IF total_rows > 0
                       THEN (Len(processed_rows) * 100) \div total_rows
                       ELSE 0
    /\ processed_df' = processed_rows
    /\ pc' = "branch"
    /\ UNCHANGED <<df_columns, total_rows, idx, df_row, processed_rows,
                   validation_errors, processing_errors, origin>>
    /\ UNCHANGED <<parse_vars, startup, invoked, submitted>>
    /\ UNCHANGED <<run, db, tx, tx_failed, excel_list_path, file_i,
                   total_records, records_loaded, batch_start, row_k, ship_id,
                   bulk_data, result, faults, rows_read, hist>>
    /\ UNCHANGED <<queries, batches>>

\* etl, lines 612-618: the loader is entered (lines 525-530), or the file is
\* skipped
EtlBranch ==
    /\ pc = "branch"
    /\ IF ~empty(processed_df)
       THEN /\ pc' = "batch"
            /\ records_loaded' = 0
            /\ batch_start' = 0
            /\ UNCHANGED file_i
       ELSE /\ pc' = "file"
            /\ file_i' = file_i + 1
            /\ UNCHANGED <<records_loaded, batch_start>>
    /\ UNCHANGED <<file_vars, parse_vars, startup, invoked, submitted>>
    /\ UNCHANGED <<run, db, tx, tx_failed, excel_list_path, total_records,
                   processed_df, row_k, ship_id, bulk_data, result, faults,
                   rows_read, hist>>
    /\ UNCHANGED <<queries, batches>>

\* parse_data_column called on data_str, by any caller
ParseDataColumn ==
    /\ pc = "call"
    /\ calls < MaxCalls
    /\ \E id \in RowIdentifiers :
         /\ row_identifier' = id
         /\ parsed' = parse_data_column(data_str, id)
         /\ first' = IF calls = 0
                     THEN [row_identifier |-> id, ret |-> parsed'.ret]
                     ELSE first
    /\ calls' = calls + 1
    /\ UNCHANGED <<data_str, file_vars, startup, invoked, submitted>>
    /\ UNCHANGED <<pc, run, db, tx, tx_failed, excel_list_path, file_i,
                   total_records, processed_df, records_loaded, batch_start,
                   row_k, ship_id, bulk_data, result, faults, rows_read, hist>>
    /\ UNCHANGED <<queries, batches>>

\* etl has discovered one file and is about to process it; or some caller is
\* about to hand a value to parse_data_column
FileInit ==
    /\ pc \in {"file", "call"}
    /\ run = 1
    /\ db = EmptyStore
    /\ tx = EmptyStore
    /\ tx_failed = FALSE
    /\ excel_list_path = <<FileNames[1]>>
    /\ file_i = 1
    /\ total_records = 0
    /\ processed_df = <<>>
    /\ records_loaded = 0
    /\ batch_start = 0
    /\ row_k = 1
    /\ ship_id = NoKey
    /\ bulk_data = <<>>
    /\ result = NoResult
    /\ faults = 0
    /\ rows_read = 0
    /\ resolved = {}
    /\ durable = {}
    /\ rows_added = 0
    /\ committed_count = 0
    /\ load_clean = TRUE
    /\ prev_load = NoLoad
    /\ invoked = <<>>
    /\ submitted = 0
    /\ queries = <<>>
    /\ batches = <<>>
    /\ db_conn_string = "value"
    /\ data_folder_path = "value"
    /\ conn = "open"
    /\ schema = "present"
    /\ schema_checked = TRUE
    /\ NoFile
    /\ row_identifier = 0
    /\ parsed = NotParsed
    /\ first = [row_identifier |-> 0, ret |-> EmptyDict]
    /\ calls = 0
    /\ IF pc = "call"
       THEN data_str \in DataInputs
       ELSE data_str = DataValue("other", "scalar", EmptyDict)

FileNext ==
    \/ ReadExcel
    \/ ProcessRow
    \/ FileStats
    \/ EtlBranch
    \/ ParseDataColumn

FileSpec == FileInit /\ [][FileNext]_vars

\* ---------------------------------------------------------------- properties
Rows(store) == BagToSet(store.f_data)

UniquePairs(store) ==
    /\ \A r1, r2 \in Rows(store) : SamePair(r1, r2) => r1 = r2
    /\ \A r \in Rows(store) : CopiesIn(r, store.f_data) = 1

\* the first record of the statement's data with the pair of rec
FirstOfPair(data, rec) ==
    \E i \in 1..Len(data) :
        /\ data[i] = rec
        /\ \A j \in 1..(i - 1) : ~SamePair(data[j], rec)

\* C1: f_data holds at most one row per (ship key, calendar key) pair and the
\* first writer wins: a bulk insert removes or changes no row that is already
\* stored, each row it adds is the first record of the statement with that
\* pair, and a committed row stays as it is through every later step (later
\* batches, files and runs included).
C1_FirstWriterWins ==
    [][/\ UniquePairs(tx') /\ UniquePairs(db')
       /\ \A r \in Rows(db) : r \in Rows(db')
       /\ pc = "insert" =>
            /\ \A r \in Rows(tx) : r \in Rows(tx')
            /\ \A r \in Rows(tx') \ Rows(tx) : FirstOfPair(bulk_data, r)]_vars

\* C1 witness: a statement whose data repeats a pair has been executed, and
\* a statement with a pair that was already stored has been executed
C1_Witness ==
    /\ pc = "commit"
    /\ Len(bulk_data) = 2
    /\ SamePair(bulk_data[1], bulk_data[2])
    /\ bulk_data[1] # bulk_data[2]
    /\ bulk_data[1] \in Rows(tx)
    /\ bulk_data[2] \notin Rows(tx)

\* C2: loading the same table twice is idempotent on storage: when a table is
\* loaded again right after a load of the same table, and no storage error
\* touched either load, the committed store (fact table and both dimensions)
\* is what the first load left.
C2_ReloadIdempotent ==
    (pc = "ret" /\ load_clean /\ prev_load.df = processed_df)
        => (db = prev_load.db /\ tx = db)

\* C2 witness: the second load of a table returned, and the first load had
\* stored fact rows
C2_Witness ==
    /\ pc = "ret"
    /\ load_clean
    /\ prev_load.df = processed_df
    /\ prev_load.db.f_data # EmptyBag
    /\ result.count > 0

\* C3 (as claimed): after a failed batch every record of the following
\* batches and files is dimension-resolved as if the failed batch had not
\* existed, that is, the ship resolution of a record succeeds unless a
\* storage error hits that very call.
C3_FollowingRecordsUnaffected ==
    [][(pc = "ship" /\ faults' = faults) => pc' = "cal"]_vars

\* C4: the rows of a committed batch stay in the fact table, unaltered, in
\* every later state: no later failure and no rollback removes them.
C4_CommittedRowsStay ==
    /\ \A r \in durable : r \in Rows(db) /\ CopiesIn(r, db.f_data) = 1
    /\ \A r \in durable : r \in Rows(tx)

\* C4 witness: the loader's handler of an unrecoverable error has rolled
\* back, after an earlier batch was committed
C4_Witness ==
    /\ pc = "file_error"
    /\ result.kind = "RuntimeError"
    /\ durable # {}

\* a timestamp truncated to the minute: its seconds and below are zero
Truncate(ts) == [min |-> ts.min, sec |-> 0]

\* C5 (as claimed): the key of every d_calendar row is a timestamp truncated
\* to the minute.
C5_KeyTruncated ==
    \A r \in db.d_calendar : r.datetime_id = Truncate(r.datetime_id)

\* C6: two timestamps resolved by get_or_create_datetime_id get the same
\* calendar key if and only if they lie in the same calendar minute.
C6_SameKeyIffSameMinute ==
    \A a, b \in resolved : (a[2] = b[2]) <=> (a[1].min = b[1].min)

\* C6 witness: two timestamps of one minute that differ in their seconds and
\* a timestamp of another minute have been resolved
C6_Witness ==
    \E a, b, c \in resolved :
        /\ a[1].min = b[1].min /\ a[1] # b[1]
        /\ c[1].min # a[1].min

\* C7: get_or_create_ship_id returns the identifier it was given; a call for
\* an identifier that has its d_ship row finds it (unless the storage call
\* itself fails), inserts nothing and commits nothing; a call for a new
\* identifier that returns has added and committed exactly that one row.
C7_ShipResolveIdempotent ==
    [][pc = "ship" =>
        LET id == batch_df[row_k].id_ship IN
        /\ pc' = "cal" => ship_id' = id /\ id \in db'.d_ship
        /\ (id \in tx.d_ship /\ ~tx_failed /\ faults' = faults) =>
              pc' = "cal" /\ tx' = tx /\ db' = db
        /\ (id \notin tx.d_ship /\ pc' = "cal") =>
              /\ tx'.d_ship = tx.d_ship \cup {id}
              /\ db'.d_ship = tx'.d_ship
        /\ pc' # "cal" => db' = db]_vars

\* C7 witness: the same ship identifier has been resolved a second time in
\* one batch and the call returned
C7_Witness ==
    /\ pc = "cal"
    /\ row_k = 2
    /\ Len(bulk_data) = 1
    /\ bulk_data[1].ship_id = ship_id
    /\ batch_df[1].id_ship = batch_df[2].id_ship

\* C8: when the loader returns normally, the count it returns is the number
\* of records of the insert statements that executed (all of them committed)
\* and it is at least the number of fact rows the load added.
C8_ReturnedCount ==
    (pc = "ret" /\ result.kind = "returned") =>
        /\ result.count = committed_count
        /\ result.count >= rows_added
        /\ result.count <= Len(processed_df)

\* C8 witness: a load returned a count that exceeds the rows it added and is
\* below the number of records it was given
C8_Witness ==
    /\ pc = "ret"
    /\ result.kind = "returned"
    /\ result.count > rows_added
    /\ result.count < Len(processed_df)

\* C9 (as claimed): the count carried by the loader's error is the number of
\* records of the batches committed before the failure.
C9_ErrorCountIsCommitted ==
    (pc = "file_error" /\ result.kind = "RuntimeError")
        => result.count = committed_count

\* C10 (as claimed): an unrecoverable error raised by the loader reaches the
\* top-level handler of etl and ends the run.
C10_LoaderErrorEndsRun ==
    [][(pc = "file_error" /\ result.kind = "RuntimeError") => pc' = "raised"]_vars

\* C10 (amended): an error raised by the loader is caught by the per-file
\* handler of etl, which goes on with the next file and leaves the grand
\* total as it is; the top-level handler is reached from file discovery only.
C10_LoaderErrorSkipsFile ==
    [][/\ pc = "file_error" =>
            /\ pc' = "file"
            /\ file_i' = file_i + 1
            /\ total_records' = total_records
       /\ pc' = "raised" => pc = "start"]_vars

\* C10 witness: the second file is being loaded after the loader raised on
\* the first
C10_Witness ==
    /\ pc = "row"
    /\ file_i = 2
    /\ result.kind = "RuntimeError"

\* C11: a file that raises never aborts the run: process_xlsx_file is invoked
\* for the files of the discovered list in their order, and once the list is
\* discovered the run reaches the normal return of etl (line 624) with every
\* file of the list invoked, whatever earlier files raised.
C11_EveryFileProcessed ==
    /\ [](/\ Len(invoked) <= Len(excel_list_path)
          /\ invoked = SubSeq(excel_list_path, 1, Len(invoked)))
    /\ (pc = "file") ~> (pc = "done" /\ invoked = excel_list_path)

\* C11 witness: etl returned after two files, the loader having raised on
\* the first of them and the second having yielded no records
C11_Witness ==
    /\ pc = "done"
    /\ invoked = FileNames
    /\ result.kind = "RuntimeError"
    /\ processed_df = <<>>

\* C12 (as claimed): the grand total logged at the end of etl is the number
\* of records submitted to the fact table during the run.
C12_GrandTotalIsSubmitted ==
    pc = "done" => total_records = submitted

\* C13: for a file whose rows all fail validation process_xlsx_file returns an
\* empty table without raising and reports a success rate of 0; etl then
\* skips the file without entering the loader, and the store is unchanged.
C13_AllRowsInvalid ==
    [][/\ pc = "iter" => pc' \in {"iter", "branch"}
       /\ (pc = "iter" /\ idx = total_rows /\ validation_errors = total_rows) =>
            /\ pc' = "branch"
            /\ processed_df' = <<>>
            /\ success_rate' = 0
       /\ (pc = "branch" /\ validation_errors = total_rows) =>
            /\ pc' = "file"
            /\ file_i' = file_i + 1
            /\ db' = db /\ tx' = tx
            /\ records_loaded' = records_loaded]_vars

\* C13 witness: a file of two rows, both skipped by validation, has been
\* skipped by etl
C13_Witness ==
    /\ pc = "file"
    /\ file_i = 2
    /\ total_rows = 2
    /\ validation_errors = 2
    /\ success_rate = 0
    /\ processed_df = <<>>

\* the dictionary validate_sensor_data was given and returned from, if the
\* last call of parse_data_column got that far
Validated ==
    /\ parsed.sensor.raised = "none"
    /\ data_str.lit = "dict"

\* the fields of the input that have a rule
RuleFields == DOMAIN data_str.items \cap DOMAIN validation_rules

\* C14: validate_sensor_data never clamps: a number outside the inclusive
\* range of its field is absent from the result, a number equal to the
\* minimum or the maximum is accepted as it is, and every value of the
\* result lies inside the range of its field, after rounding too.
C14_NeverClamps ==
    Validated =>
        LET out == parsed.sensor.validated_data IN
        /\ DOMAIN out \subseteq RuleFields
        /\ \A k \in RuleFields :
             LET value == data_str.items[k]
                 lo == FromHundredths(validation_rules[k].min_val)
                 hi == FromHundredths(validation_rules[k].max_val)
             IN /\ k \in DOMAIN out => lo <= out[k] /\ out[k] <= hi
                /\ value.t \in {"float", "str"} =>
                     /\ (value.v < lo \/ value.v > hi) => k \notin DOMAIN out
                     /\ value.v \in {lo, hi} => k \in DOMAIN out /\ out[k] = value.v
                     /\ (lo <= value.v /\ value.v <= hi) => k \in DOMAIN out

\* C14 witness: a call was given a latitude just above its maximum and a wind
\* direction equal to its maximum
C14_Witness ==
    /\ Validated
    /\ {"LAT", "WINDIR"} \subseteq DOMAIN data_str.items
    /\ data_str.items["LAT"] = [t |-> "float", v |-> 360000001]
    /\ data_str.items["WINDIR"] = [t |-> "float", v |-> 1440000000]
    /\ DOMAIN parsed.sensor.validated_data = {"WINDIR"}

\* the declared decimal precision: 6 for latitude and longitude, 2 otherwise
DeclaredStep(k) == IF k \in {"LAT", "LON"} THEN 4 ELSE 40000

\* C15: every accepted value is the input rounded to the declared precision
\* of its field by one rule, Python's round: the result is a multiple of the
\* field's last digit, at most half a digit from the input, and an exact tie
\* goes to the even digit.
C15_RoundedToPrecision ==
    Validated =>
        \A k \in DOMAIN parsed.sensor.validated_data :
            LET v == data_str.items[k].v
                out == parsed.sensor.validated_data[k]
                step == DeclaredStep(k)
                dist == IF out >= v THEN out - v ELSE v - out
            IN /\ out % step = 0
               /\ 2 * dist <= step
               /\ 2 * dist = step => (out \div step) % 2 = 0

\* C15 witness: a latitude a quarter digit above a 6-decimal number and the
\* wind direction 0.125, an exact tie, have been accepted (as -90.0 and 0.12)
C15_Witness ==
    /\ Validated
    /\ DOMAIN parsed.sensor.validated_data = {"LAT", "WINDIR"}
    /\ data_str.items["LAT"].v = -359999999
    /\ parsed.sensor.validated_data["LAT"] = -360000000
    /\ data_str.items["WINDIR"].v = 500000
    /\ parsed.sensor.validated_data["WINDIR"] = 480000

\* the values for which parse_data_column has nothing to validate: a text
\* that is no literal, a literal that is no dictionary, a value that is
\* neither a text nor a dictionary
NoDictionary(value) ==
    value.type = "other" \/ value.lit \in {"SyntaxError", "ValueError", "scalar", "seq"}

\* C16: parse_data_column never lets an exception out and returns the empty
\* mapping for a malformed literal, a literal that is no dictionary and a
\* value of another type; process_xlsx_file then counts the row as a
\* validation error, adds nothing to its output and goes on with the next row.
C16_ParseNeverRaises ==
    [][/\ parsed'.raised \in {"none", "not called"}
       /\ (parsed'.raised = "none" /\ NoDictionary(data_str')) =>
             parsed'.ret = EmptyDict
       /\ (pc = "iter" /\ idx' = idx + 1 /\ ~df_row'.data.na
             /\ NoDictionary(df_row'.data.v)) =>
             /\ validation_errors' = validation_errors + 1
             /\ processing_errors' = processing_errors
             /\ processed_rows' = processed_rows
             /\ pc' = "iter"]_vars

\* C16 witness: the second row of a sheet held a text that is no literal, was
\* handed to parse_data_column and skipped, after the first row had been
\* materialised
C16_Witness ==
    /\ pc = "iter"
    /\ idx = 2
    /\ df_row.data.v.lit = "SyntaxError"
    /\ data_str = df_row.data.v
    /\ row_identifier = 1
    /\ validation_errors = 1
    /\ Len(processed_rows) = 1

C18_NoWorkWithoutConfig ==
    [][LET missing == \/ db_conn_string' \in {None, ""}
                      \/ data_folder_path' \in {None, ""}
       IN /\ (pc = "main" /\ missing) =>
                /\ pc' = "fatal"
                /\ result'.kind = "ValueError"
                /\ schema' = schema
                /\ db' = db
          /\ missing =>
                /\ pc' \in {"main", "fatal"}
                /\ conn' = "none"
                /\ ~schema_checked'
                /\ excel_list_path' = <<>>
                /\ invoked' = <<>>]_vars

\* C18 witness: the process has failed at startup with DATABASE_URL set and
\* DATA_FOLDER_PATH missing, the schema being absent
C18_Witness ==
    /\ pc = "fatal"
    /\ db_conn_string = "value"
    /\ data_folder_path = None
    /\ schema = "absent"

\* C19 (as claimed): the error counter of validate_sensor_data is the number
\* of fields of the rule table that are present in the input and absent from
\* the result.
C19_CounterCountsDropped ==
    Validated =>
        parsed.sensor.validation_errors
            = Cardinality({k \in RuleFields :
                             k \notin DOMAIN parsed.sensor.validated_data})

\* C20: d_calendar holds at most one row per (year, month, day, hour,
\* minute) and d_ship at most one row per ship identifier, in the committed
\* store and in the connection's view, through failed batches and rollbacks;
\* a committed dimension row is never modified or deleted.
C20_DimensionRowsUnique ==
    [][/\ \A a, b \in db'.d_calendar : a.minute = b.minute => a = b
       /\ \A a, b \in tx'.d_calendar : a.minute = b.minute => a = b
       /\ db.d_calendar \subseteq db'.d_calendar
       /\ db.d_ship \subseteq db'.d_ship
       /\ db'.d_ship \subseteq tx'.d_ship
       /\ db'.d_calendar \subseteq tx'.d_calendar]_vars

\* C20 witness: after a storage error (and its rollback) a timestamp has been
\* resolved to the row that another timestamp of its minute had created, and
\* both dimensions hold two rows
C20_Witness ==
    /\ faults > 0
    /\ \E a \in resolved : a[1] # a[2]
    /\ Cardinality(db.d_calendar) = 2
    /\ Cardinality(db.d_ship) = 2

\* the row of the last iteration passed every check of lines 336-356 and then
\* met the exception of line 362
RowRaised ==
    /\ required_columns \subseteq df_columns
    /\ ~df_row.id_ship.na /\ df_row.id_ship.v # " "
    /\ ~df_row.datetime.na
    /\ ~df_row.data.na
    /\ DOMAIN parsed.ret # {}
    /\ "datetime_created" \notin df_columns

\* C21: an unexpected exception while one row is processed adds exactly one
\* processing error and nothing else, the row is not materialised and the loop
\* goes on to the next row; a file that was read returns only after its last
\* row; the materialised rows are appended one at a time, each from the row of
\* its iteration, so that they stand in source row order.
C21_RowErrorCountedOnce ==
    /\ [][(pc = "iter" /\ idx' = idx + 1) =>
            /\ RowRaised' =>
                 /\ processing_errors' = processing_errors + 1
                 /\ validation_errors' = validation_errors
                 /\ processed_rows' = processed_rows
                 /\ pc' = "iter"
            /\ processed_rows' # processed_rows =>
                 /\ Len(processed_rows') = Len(processed_rows) + 1
                 /\ SubSeq(processed_rows', 1, Len(processed_rows)) = processed_rows
                 /\ processed_rows'[Len(processed_rows')].id_ship = df_row'.id_ship.v
                 /\ processed_rows'[Len(processed_rows')].datetime = df_row'.datetime.v
                 /\ origin' = Append(origin, idx)]_vars
    /\ [](/\ Len(origin) = Len(processed_rows)
          /\ \A i \in 1..(Len(origin) - 1) : origin[i] < origin[i + 1]
          /\ pc = "branch" => idx = total_rows)

\* the first row met the exception, the second row was still processed (and
\* failed a validation check), and the file has returned
C21_Witness ==
    /\ pc = "branch"
    /\ total_rows = 2
    /\ processing_errors = 1
    /\ validation_errors = 1
    /\ df_row.id_ship.na
    /\ processed_rows = <<>>

\* C24: every row iterated so far has ended in exactly one of the three
\* outcomes, so the three counts add up to the rows iterated, and to the row
\* count of the file once the loop is left.
C24_ThreeOutcomes ==
    /\ Len(processed_rows) + validation_errors + processing_errors = idx
    /\ idx <= total_rows
    /\ pc # "iter" => idx = total_rows

\* a file of two rows has returned with one record and one validation error
C24_Witness ==
    /\ pc = "branch"
    /\ total_rows = 2
    /\ Len(processed_rows) = 1
    /\ validation_errors = 1
    /\ processing_errors = 0

\* C22: while one batch is prepared, no ship identifier and no calendar minute
\* is looked up in the store more than once.
C22_QueryOncePerIdentifier ==
    \A i, j \in 1..Len(queries) : i # j => queries[i] # queries[j]

\* C23: the batches a load starts are consecutive slices of the table in row
\* order, beginning at its first row; each holds between one and batch_size
\* rows and only a slice that ends the table holds fewer than batch_size; a
\* batch is started only when every batch before it was committed or skipped;
\* the slice being worked on is the one started last; and a load that returns
\* has sliced the whole table.
C23_ConsecutiveBatches ==
    /\ \A k \in 1..Len(batches) :
         /\ batches[k].start = (IF k = 1 THEN 0 ELSE batches[k - 1].end)
         /\ batches[k].end - batches[k].start \in 1..batch_size
         /\ batches[k].end - batches[k].start < batch_size =>
              batches[k].end = Len(processed_df)
         /\ k < Len(batches) => batches[k].outcome \in {"committed", "skipped"}
    /\ pc \in {"row", "ship", "cal", "insert", "commit"} =>
         /\ batches # <<>>
         /\ batches[Len(batches)].outcome = "open"
         /\ batch_start = batches[Len(batches)].start
         /\ batch_df = SubSeq(processed_df, batches[Len(batches)].start + 1,
                              batches[Len(batches)].end)
    /\ pc = "ret" =>
         /\ batches # <<>>
         /\ batches[Len(batches)].end = Len(processed_df)
         /\ batches[Len(batches)].outcome \in {"committed", "skipped"}

\* a table of three rows was loaded as a full batch, committed, and a short
\* last batch
C23_Witness ==
    /\ pc = "ret"
    /\ Len(processed_df) = 3
    /\ Len(batches) = 2
    /\ batches[1] = [start |-> 0, end |-> 2, outcome |-> "committed"]
    /\ batches[2] = [start |-> 2, end |-> 3, outcome |-> "committed"]

\* C25: every committed fact row has its ship key in the committed d_ship and
\* its calendar key in the committed d_calendar, and every record of a batch
\* that is about to be submitted has both dimension rows committed already.
C25_DimensionsCommittedFirst ==
    /\ \A r \in Rows(db) : ~FkViolation(db, r)
    /\ pc = "insert" => \A i \in 1..Len(bulk_data) : ~FkViolation(db, bulk_data[i])

\* a batch is about to be submitted after the batch before it failed on a
\* storage error
C25_Witness ==
    /\ pc = "insert"
    /\ bulk_data # <<>>
    /\ faults = 1
    /\ Len(batches) = 2
    /\ batches[1].outcome = "skipped"

====
